---- MODULE Spec2Model ----
(***************************************************************************)
(* Model of src-tauri/src/lib.rs: the three Tauri commands compress_video, *)
(* compress_image and kill_ffmpeg, the encoder probe is_encoder_supported, *)
(* and the window-destroyed cleanup of run().                              *)
(*                                                                         *)
(* An async command is a sequence of atomic steps, one per .await: the     *)
(* code between two awaits runs without interleaving, every await (a probe *)
(* finishing, rx.recv() delivering an event) is a step of its own.         *)
(* Paths are sequences of one-character strings, so that Path::extension   *)
(* and to_lowercase are computed.  An ffmpeg argument is a sequence of      *)
(* strings, its pieces in order: a path, a literal (one piece) or a         *)
(* formatted string (the pieces format! concatenates).                      *)
(* Option values are sequences of length 0 (None) or 1 (Some).             *)
(***************************************************************************)
EXTENDS Integers, Sequences, FiniteSets, TLC

VARIABLES call, killers, windowOpen

vars == <<call, killers, windowOpen>>

(***************************** bounds **************************************)
\* standard-error lines one child delivers at most
MaxLines == 2
\* pkill/taskkill processes spawned and not yet run, at most
MaxKillers == 1
\* command invocations in flight at once in SpecOverlap
MaxCalls == 2
\* standard-error lines one child delivers at most in SpecOverlap
MaxOverlapLines == 1

(***************************** Option **************************************)
None == <<>>
Some(x) == <<x>>

(***************************** strings *************************************)
UpperChars == <<"A","B","C","D","E","F","G","H","I","J","K","L","M",
                "N","O","P","Q","R","S","T","U","V","W","X","Y","Z">>
LowerChars == <<"a","b","c","d","e","f","g","h","i","j","k","l","m",
                "n","o","p","q","r","s","t","u","v","w","x","y","z">>

\* char::to_lowercase on the ASCII letters
LowerChar(ch) ==
    IF \E i \in DOMAIN UpperChars : UpperChars[i] = ch
    THEN LowerChars[CHOOSE i \in DOMAIN UpperChars : UpperChars[i] = ch]
    ELSE ch

\* str::to_lowercase
to_lowercase(s) == [i \in DOMAIN s |-> LowerChar(s[i])]

\* positions of character ch in s
Positions(s, ch) == {i \in DOMAIN s : s[i] = ch}

Max(S) == CHOOSE m \in S : \A n \in S : n <= m

\* Path::file_name: the last component (paths here do not end in "/" or "..")
file_name(p) ==
    LET sl == Positions(p, "/")
    IN  IF sl = {} THEN p ELSE SubSeq(p, Max(sl) + 1, Len(p))

\* Path::extension: None without a file name, without a "." in it, or when the
\* only "." is its first character; otherwise what follows the last "."
extension(p) ==
    LET f    == file_name(p)
        dots == Positions(f, ".")
    IN  IF f = <<>> \/ dots = {} \/ Max(dots) = 1
        THEN None
        ELSE Some(SubSeq(f, Max(dots) + 1, Len(f)))

\* Option::unwrap_or
unwrap_or(o, d) == IF o = None THEN d ELSE o[1]

\* String::from_utf8_lossy on bytes that are ASCII or lone invalid bytes: an
\* ASCII byte is its own code point, an invalid byte becomes U+FFFD
from_utf8_lossy(bytes) ==
    [i \in DOMAIN bytes |-> IF bytes[i] < 128 THEN bytes[i] ELSE 65533]

(***************************** ffmpeg arguments ****************************)
\* "Unknown FFmpeg Error" as code points
UnknownFFmpegError ==
    <<85,110,107,110,111,119,110,32,70,70,109,112,101,103,32,69,114,114,111,114>>

\* a literal as an argument, and a list of literals as arguments
Lit(s) == <<s>>
Lits(ss) == [i \in DOMAIN ss |-> Lit(ss[i])]

\* the argument list of the probe encode
ProbeArgs(encoder) ==
    Lits(<<"-f", "lavfi", "-i", "color=s=64x64:d=0.1", "-c:v", encoder,
           "-f", "null", "-">>)

\* selected_encoder, selected_audio, selected_preset, extra_args and
\* input_prefix_args as compress_video initialises them
Defaults ==
    [encoder |-> "libx264", audio |-> "aac", preset |-> "medium",
     extra |-> <<>>, prefix |-> <<>>]

\* the chain with its first two branches exchanged
HwCandidates_Swapped ==
    << [Defaults EXCEPT !.encoder = "h264_videotoolbox",
                        !.prefix  = <<"-hwaccel", "videotoolbox">>,
                        !.extra   = <<"-q:v", "55">>],
       [Defaults EXCEPT !.encoder = "h264_nvenc",
                        !.prefix  = <<"-hwaccel", "cuda">>,
                        !.preset  = "p4"],
       [Defaults EXCEPT !.encoder = "h264_amf",
                        !.prefix  = <<"-hwaccel", "auto">>,
                        !.extra   = <<"-usage", "transcoding">>],
       [Defaults EXCEPT !.encoder = "h264_qsv",
                        !.prefix  = <<"-hwaccel", "auto">>,
                        !.extra   = <<"-global_quality", "25">>] >>

\* the if / else-if chain of hardware encoders, in its order, with what each
\* branch assigns
HwCandidates ==
    << [Defaults EXCEPT !.encoder = "h264_nvenc",
                        !.prefix  = <<"-hwaccel", "cuda">>,
                        !.preset  = "p4"],
       [Defaults EXCEPT !.encoder = "h264_videotoolbox",
                        !.prefix  = <<"-hwaccel", "videotoolbox">>,
                        !.extra   = <<"-q:v", "55">>],
       [Defaults EXCEPT !.encoder = "h264_amf",
                        !.prefix  = <<"-hwaccel", "auto">>,
                        !.extra   = <<"-usage", "transcoding">>],
       [Defaults EXCEPT !.encoder = "h264_qsv",
                        !.prefix  = <<"-hwaccel", "auto">>,
                        !.extra   = <<"-global_quality", "25">>] >>

\* the match arms on the lowercased extension
H264Group ==
    { <<"m","p","4">>, <<"m","k","v">>, <<"m","o","v">>, <<"a","v","i">>,
      <<"f","l","v">>, <<"t","s">>, <<"m","4","v">>, <<"w","m","v">> }
WebmGroup == { <<"w","e","b","m">> }
OggGroup  == { <<"o","g","v">>, <<"o","g","g">> }
GifGroup  == { <<"g","i","f">> }

WebmSel ==
    [Defaults EXCEPT !.encoder = "libvpx-vp9", !.audio = "libopus",
                     !.extra = <<"-b:v", "0", "-crf", "30">>]
TheoraSel ==
    [Defaults EXCEPT !.encoder = "libtheora", !.audio = "libvorbis",
                     !.extra = <<"-q:v", "6">>]

GifArgs(input, output) ==
    <<Lit("-i"), input, Lit("-vf"), Lit("fps=15,scale=480:-1:flags=lanczos"),
      Lit("-y"), output>>

\* step 3 of compress_video, BUILD ARGUMENTS
BuildArgs(input, output, s) ==
    Lits(s.prefix) \o <<Lit("-i"), input, Lit("-c:v"), Lit(s.encoder)>>
    \o (IF s.encoder \notin {"libvpx-vp9", "libtheora", "h264_videotoolbox"}
        THEN <<Lit("-preset"), Lit(s.preset)>> ELSE <<>>)
    \o Lits(s.extra) \o <<Lit("-c:a"), Lit(s.audio), Lit("-y"), output>>

\* format!("scale={}:{}", width, h)
Scale(width, h) == <<"scale=", width, ":", h>>

\* compress_image testing height where it tests width
ImageArgs_TestsHeight(input, output, width, height) ==
    <<Lit("-i"), input>>
    \o (IF height # "0" /\ height # ""
        THEN <<Lit("-vf"), Scale(width, height)>>
        ELSE <<>>)
    \o <<Lit("-y"), output>>

\* the argument list of compress_image
ImageArgs(input, output, width, height) ==
    <<Lit("-i"), input>>
    \o (IF width # "0" /\ width # ""
        THEN LET h == IF height = "" \/ height = "0" THEN "-1" ELSE height
             IN  <<Lit("-vf"), Scale(width, h)>>
        ELSE <<>>)
    \o <<Lit("-y"), output>>

(***************************** results *************************************)
Ok == [ok |-> TRUE]
Err(m) == [ok |-> FALSE, msg |-> m]

InputFileNotFound == [text |-> "Input file not found"]
\* e.to_string() of a sidecar or spawn error
SpawnError == [text |-> "spawn error"]
FFmpegStopped(code, log) ==
    [text |-> "FFmpeg Stopped/Crashed (Code {}): {}", code |-> code, log |-> log]
GifFailed(code) ==
    [text |-> "GIF conversion failed with exit code: {}", code |-> code]

(***************************** environment *********************************)
\* the input paths a request may name, and the one that exists on disk
ExistingInput == <<"i", ".", "m", "o", "v">>
MissingInput  == <<"x", ".", "m", "o", "v">>
FileSystem    == {ExistingInput}

\* Path::exists
exists(p) == p \in FileSystem

\* exit codes of an ffmpeg child that ends by itself, and of one ended by
\* pkill (ffmpeg's own SIGTERM handler exits 255) or taskkill /F (exit code 1)
ExitCodes == {0, 1}
KillCodes == {1, 255}

\* payload.code of the Terminated event: None when a signal ended the child
NaturalPayloads == {None} \cup {Some(c) : c \in ExitCodes}
KilledPayloads  == {None} \cup {Some(c) : c \in KillCodes}

\* standard-error lines, as bytes; 255 is not valid UTF-8
StderrLines == { <<102>>, <<255, 102>> }

(***************************** one invocation ******************************)
\* The state of one command invocation: its arguments, its local variables and
\* its position.  pc is "idle" (no invocation), "probe" (awaiting the output
\* of is_encoder_supported), "recv" (awaiting rx.recv()) or "done" (returned).
\* loop names the receive loop: "encode", "gif" or "image".  spawns lists the
\* argument list of every child the invocation has asked to spawn; child is
\* the state of the latest one; received are the Stderr events taken from rx,
\* emitted the "ffmpeg-progress" events sent; probed are the answers of the
\* probes that have returned; term is the Terminated payload once taken,
\* by_kill whether the kill operation ended that child.
IdleCall ==
    [pc |-> "idle", op |-> "none", loop |-> "none",
     input |-> <<>>, output |-> <<>>, auto_gpu |-> FALSE,
     width |-> "", height |-> "",
     sel |-> Defaults, spawns |-> <<>>, probed |-> <<>>, child |-> "none",
     received |-> <<>>, emitted |-> <<>>, last_log_error |-> None,
     term |-> None, by_kill |-> FALSE, result |-> None]

\* return from the command
Return(r, res) == [r EXCEPT !.pc = "done", !.result = Some(res)]

\* sidecar("ffmpeg")?.args(args).spawn()?: on an error the command returns it
Spawned(r, args, ok, loop) ==
    IF ok
    THEN [r EXCEPT !.spawns = Append(@, args), !.child = "running",
                   !.pc = "recv", !.loop = loop]
    ELSE Return([r EXCEPT !.spawns = Append(@, args), !.child = "none"],
                Err(SpawnError))

\* steps 3 and 4 of compress_video with the selection s, up to the first
\* rx.recv().await
Execute(r, s, ok) ==
    LET q == Spawned([r EXCEPT !.sel = s],
                     BuildArgs(r.input, r.output, s), ok, "encode")
    IN  IF ok THEN [q EXCEPT !.last_log_error = Some(UnknownFFmpegError)] ELSE q

\* the call of is_encoder_supported for the k-th candidate, up to its .await;
\* ok is whether the probe process could be started
StartProbe(r, k, ok) ==
    [r EXCEPT !.pc = "probe",
              !.spawns = Append(@, ProbeArgs(HwCandidates[k].encoder)),
              !.child = IF ok THEN "running" ELSE "none"]

\* the routing without to_lowercase
Route_CaseSensitive(r, ok) ==
    LET ext == unwrap_or(extension(r.output), <<>>)
    IN  CASE ext \in H264Group ->
               IF r.auto_gpu THEN StartProbe(r, 1, ok)
                             ELSE Execute(r, Defaults, ok)
          [] ext \in WebmGroup -> Execute(r, WebmSel, ok)
          [] ext \in OggGroup  -> Execute(r, TheoraSel, ok)
          [] ext \in GifGroup  ->
               Spawned(r, GifArgs(r.input, r.output), ok, "gif")
          [] OTHER -> Execute(r, Defaults, ok)

\* steps 1 and 2 of compress_video, ANALYZE EXTENSION and ROUTING LOGIC, up
\* to the first .await
Route(r, ok) ==
    LET ext == to_lowercase(unwrap_or(extension(r.output), <<>>))
    IN  CASE ext \in H264Group ->
               IF r.auto_gpu THEN StartProbe(r, 1, ok)
                             ELSE Execute(r, Defaults, ok)
          [] ext \in WebmGroup -> Execute(r, WebmSel, ok)
          [] ext \in OggGroup  -> Execute(r, TheoraSel, ok)
          [] ext \in GifGroup  ->
               Spawned(r, GifArgs(r.input, r.output), ok, "gif")
          [] OTHER -> Execute(r, Defaults, ok)

\* the arguments of an invocation of compress_video
VideoCall(input, output, auto_gpu) ==
    [IdleCall EXCEPT !.op = "compress_video", !.input = input,
                     !.output = output, !.auto_gpu = auto_gpu]

\* compress_video without the check of the input path
VideoStart_Unchecked(input, output, auto_gpu, ok) ==
    Route(VideoCall(input, output, auto_gpu), ok)

\* compress_video from its entry to its first .await
VideoStart(input, output, auto_gpu, ok) ==
    LET r == VideoCall(input, output, auto_gpu)
    IN  IF ~exists(input) THEN Return(r, Err(InputFileNotFound))
        ELSE Route(r, ok)

\* ExitStatus::success of a payload
success(code) == code = Some(0)

\* the match on the probe's output: out is None for Err(_), Some(code) for Ok(o)
is_encoder_supported(out) == IF out = None THEN FALSE ELSE success(out[1])

\* what .output().await can deliver for a probe child in state st, on a
\* machine where a probe left alone ends with one of the payloads own
ProbeOutputs(st, own) ==
    CASE st = "none"    -> {None}
      [] st = "killed"  -> {Some(p) : p \in KilledPayloads}
      [] OTHER          -> {Some(p) : p \in own}

\* the chain keeping the last candidate when its probe fails
ProbeResolved_KeepsLast(r, supported, ok) ==
    LET k == Len(r.spawns)
        q == [r EXCEPT !.probed = Append(@, supported)]
    IN  IF supported \/ k = Len(HwCandidates)
        THEN Execute(q, HwCandidates[k], ok)
        ELSE StartProbe(q, k + 1, ok)

\* compress_video from the return of the k-th probe to the next .await
ProbeResolved(r, supported, ok) ==
    LET k == Len(r.spawns)
        q == [r EXCEPT !.probed = Append(@, supported)]
    IN  IF supported THEN Execute(q, HwCandidates[k], ok)
        ELSE IF k < Len(HwCandidates) THEN StartProbe(q, k + 1, ok)
        ELSE Execute(q, Defaults, ok)

\* compress_image from its entry to its first .await
ImageStart(input, output, width, height, ok) ==
    LET r == [IdleCall EXCEPT !.op = "compress_image", !.input = input,
                              !.output = output, !.width = width,
                              !.height = height]
    IN  IF ~exists(input) THEN Return(r, Err(InputFileNotFound))
        ELSE Spawned(r, ImageArgs(input, output, width, height), ok, "image")

\* the encode loop keeping the first line as last_log_error
OnStderr_KeepsFirst(r, line_bytes) ==
    LET line == from_utf8_lossy(line_bytes)
        q    == [r EXCEPT !.received = Append(@, line_bytes)]
    IN  CASE r.loop = "encode" ->
               [q EXCEPT !.last_log_error =
                             IF r.received = <<>> THEN Some(line) ELSE @,
                         !.emitted = Append(@, line)]
          [] r.loop = "image" -> [q EXCEPT !.emitted = Append(@, line)]
          [] OTHER -> q

\* one turn of a receive loop on CommandEvent::Stderr(line_bytes)
OnStderr(r, line_bytes) ==
    LET line == from_utf8_lossy(line_bytes)
        q    == [r EXCEPT !.received = Append(@, line_bytes)]
    IN  CASE r.loop = "encode" ->
               [q EXCEPT !.last_log_error = Some(line),
                         !.emitted = Append(@, line)]
          [] r.loop = "image" -> [q EXCEPT !.emitted = Append(@, line)]
          [] OTHER -> q

\* one turn of a receive loop on CommandEvent::Terminated(payload)
OnTerminated(r, code) ==
    LET q == [r EXCEPT !.term = Some(code), !.by_kill = (r.child = "killed"),
                       !.child = "exited"]
    IN  CASE r.loop = "encode" /\ code # None /\ code # Some(0) ->
               Return(q, Err(FFmpegStopped(code[1], r.last_log_error[1])))
          [] r.loop = "gif" /\ code # None /\ code # Some(0) ->
               Return(q, Err(GifFailed(code[1])))
          [] OTHER -> q

\* rx.recv() returns None: the loop ends and the command returns Ok(())
OnClosed(r) == Return(r, Ok)

\* a kill that ends the running child of one invocation only
pkill_OneChild(cs) ==
    LET running == {c \in DOMAIN cs : cs[c].child = "running"}
    IN  [c \in DOMAIN cs |->
            IF running # {} /\ c = Max(running)
            THEN [cs[c] EXCEPT !.child = "killed"]
            ELSE cs[c]]

\* what pkill -f ffmpeg / taskkill /F /IM ffmpeg* does to the ffmpeg children
pkill(cs) ==
    [c \in DOMAIN cs |->
        IF cs[c].child = "running" THEN [cs[c] EXCEPT !.child = "killed"]
        ELSE cs[c]]

(***************************** requests ************************************)
\* an output path "o.<ext>"
Named(ext) == <<"o", ".">> \o ext

\* output paths of the video requests: every extension of the match, some in
\* upper or mixed case, an unknown one, and paths without an extension
VideoOutputs ==
    {Named(e) : e \in H264Group \cup WebmGroup \cup OggGroup \cup GifGroup}
    \cup { Named(<<"M","P","4">>), Named(<<"M","k","V">>), Named(<<"T","S">>),
           Named(<<"W","e","b","M">>), Named(<<"O","G","G">>),
           Named(<<"G","i","F">>), Named(<<"t","x","t">>),
           Named(<<"g","i","f",".","m","p","4">>),
           Named(<<"m","p","4",".","w","e","b","m">>),
           <<"o">>, <<"o", ".">>, <<".", "g", "i", "f">>,
           <<"d", ".", "m", "p", "4", "/", "o">>,
           <<"d", ".", "o", "g", "g", "/", ".", "w", "e", "b", "m">> }

ImageOutput == <<"o", ".", "p", "n", "g">>

\* what the UI may ask for and what the machine may answer: every request on
\* any machine, and the requests of the overlap runs
AllRequests ==
    [inputs |-> {ExistingInput, MissingInput}, outputs |-> VideoOutputs,
     gpus |-> BOOLEAN, widths |-> {"", "0", "640"},
     heights |-> {"", "0", "480"}, lines |-> StderrLines,
     maxLines |-> MaxLines, probes |-> NaturalPayloads]

FewRequests ==
    [inputs |-> {ExistingInput}, outputs |-> {Named(<<"m","p","4">>)},
     gpus |-> {TRUE}, widths |-> {}, heights |-> {},
     lines |-> {<<255, 102>>}, maxLines |-> MaxOverlapLines,
     probes |-> {Some(1)}]

(***************************** actions *************************************)
Calls == DOMAIN call

\* Command::new("pkill") ... .spawn() with its result dropped: ok is whether
\* the killer process started
SpawnKiller(k, ok) == IF ok /\ k < MaxKillers THEN k + 1 ELSE k

\* the UI invokes compress_video
compress_video(c, D) ==
    /\ windowOpen
    /\ call[c].pc = "idle"
    /\ \E input \in D.inputs, output \in D.outputs, auto_gpu \in D.gpus,
          ok \in BOOLEAN :
          call' = [call EXCEPT ![c] = VideoStart(input, output, auto_gpu, ok)]
    /\ UNCHANGED <<killers, windowOpen>>

\* the UI invokes compress_image
compress_image(c, D) ==
    /\ windowOpen
    /\ call[c].pc = "idle"
    /\ \E input \in D.inputs, width \in D.widths, height \in D.heights,
          ok \in BOOLEAN :
          call' = [call EXCEPT
                     ![c] = ImageStart(input, ImageOutput, width, height, ok)]
    /\ UNCHANGED <<killers, windowOpen>>

\* the probe's .output().await returns
ProbeDone(c, D) ==
    /\ call[c].pc = "probe"
    /\ \E out \in ProbeOutputs(call[c].child, D.probes), ok \in BOOLEAN :
          call' = [call EXCEPT
                     ![c] = ProbeResolved([@ EXCEPT !.child = "none"],
                                          is_encoder_supported(out), ok)]
    /\ UNCHANGED <<killers, windowOpen>>

\* rx.recv() delivers a Stderr event
RecvStderr(c, D) ==
    /\ call[c].pc = "recv"
    /\ call[c].child \in {"running", "killed"}
    /\ Len(call[c].received) < D.maxLines
    /\ \E line_bytes \in D.lines :
          call' = [call EXCEPT ![c] = OnStderr(@, line_bytes)]
    /\ UNCHANGED <<killers, windowOpen>>

\* rx.recv() delivers a Stdout or Error event: no loop does anything with it
RecvOther(c) ==
    /\ call[c].pc = "recv"
    /\ call[c].child \in {"running", "killed"}
    /\ UNCHANGED vars

\* rx.recv() delivers the Terminated event, the child's last
RecvTerminated(c) ==
    /\ call[c].pc = "recv"
    /\ call[c].child \in {"running", "killed"}
    /\ \E code \in (IF call[c].child = "killed" THEN KilledPayloads
                                                ELSE NaturalPayloads) :
          call' = [call EXCEPT ![c] = OnTerminated(@, code)]
    /\ UNCHANGED <<killers, windowOpen>>

\* rx.recv() returns None after the child has ended
RecvClosed(c) ==
    /\ call[c].pc = "recv"
    /\ call[c].child = "exited"
    /\ call' = [call EXCEPT ![c] = OnClosed(@)]
    /\ UNCHANGED <<killers, windowOpen>>

\* the UI takes the result of the invocation
Collect(c) ==
    /\ call[c].pc = "done"
    /\ call' = [call EXCEPT ![c] = IdleCall]
    /\ UNCHANGED <<killers, windowOpen>>

\* the UI invokes kill_ffmpeg: no condition, nothing awaited, nothing returned
kill_ffmpeg ==
    /\ windowOpen
    /\ \E ok \in BOOLEAN : killers' = SpawnKiller(killers, ok)
    /\ UNCHANGED <<call, windowOpen>>

\* on_window_event with WindowEvent::Destroyed
WindowDestroyed ==
    /\ windowOpen
    /\ windowOpen' = FALSE
    /\ \E ok \in BOOLEAN : killers' = SpawnKiller(killers, ok)
    /\ UNCHANGED call

\* a spawned pkill / taskkill runs
KillerRuns ==
    /\ killers > 0
    /\ killers' = killers - 1
    /\ call' = pkill(call)
    /\ UNCHANGED windowOpen

\* every step but the invocation of compress_image
Steps(D) ==
    \/ \E c \in Calls : compress_video(c, D)
    \/ \E c \in Calls : ProbeDone(c, D)
    \/ \E c \in Calls : RecvStderr(c, D)
    \/ \E c \in Calls : RecvOther(c)
    \/ \E c \in Calls : RecvTerminated(c)
    \/ \E c \in Calls : RecvClosed(c)
    \/ \E c \in Calls : Collect(c)
    \/ kill_ffmpeg
    \/ WindowDestroyed
    \/ KillerRuns

InitWith(n) ==
    /\ call = [c \in 1..n |-> IdleCall]
    /\ killers = 0
    /\ windowOpen = TRUE

\* one invocation at a time, every request
Init == InitWith(1)
Next ==
    \/ \E c \in Calls : compress_image(c, AllRequests)
    \/ Steps(AllRequests)
Spec == Init /\ [][Next]_vars

\* up to MaxCalls invocations of compress_video in flight, each asking for
\* the hardware probes, on a machine without a hardware encoder
InitOverlap == InitWith(MaxCalls)
NextOverlap == Steps(FewRequests)
SpecOverlap == InitOverlap /\ [][NextOverlap]_vars

(***************************** properties **********************************)
\* the Stderr events taken from rx, as the text an event carries
Forwarded(r) == [i \in DOMAIN r.received |-> from_utf8_lossy(r.received[i])]

\* the invocation has returned a failure
Failed(r) == r.pc = "done" /\ r.result # None /\ ~r.result[1].ok

\* the invocation has returned success
Succeeded(r) == r.pc = "done" /\ r.result = Some(Ok)

\* the places of the literal a in the argument list args
Places(args, a) == {i \in DOMAIN args : args[i] = Lit(a)}

\* args carries value v right after its only flag f
Carries(args, f, v) ==
    /\ Cardinality(Places(args, f)) = 1
    /\ \A i \in Places(args, f) : i < Len(args) /\ args[i + 1] = Lit(v)

\* the spawned argument lists that are probes, and the encoders they name
IsProbe(args) == Len(args) = 9 /\ SubSeq(args, 1, 5) = SubSeq(ProbeArgs(""), 1, 5)
ProbeEncoders(r) ==
    LET ps == SelectSeq(r.spawns, IsProbe) IN [i \in DOMAIN ps |-> ps[i][6][1]]

\* C1: in each of the three receive loops, a Terminated event with exit code
\* 0 makes the command return success, and one with a nonzero exit code makes
\* it return a failure whose message holds that code.
C1_ExitCodeDecidesResult ==
    \A c \in Calls :
        LET r == call[c]
        IN  (r.pc = "done" /\ r.term # None /\ r.term[1] # None) =>
                IF r.term[1] = Some(0)
                THEN Succeeded(r)
                ELSE /\ Failed(r)
                     /\ "code" \in DOMAIN r.result[1].msg
                     /\ r.result[1].msg.code = r.term[1][1]

\* C2: an invocation of compress_video or compress_image whose input path
\* does not exist has returned Err("Input file not found") and has asked for
\* no child process, whatever its other arguments.
C2_MissingInputFailsFast ==
    \A c \in Calls :
        LET r == call[c]
        IN  (r.op # "none" /\ ~exists(r.input)) =>
                /\ r.pc = "done"
                /\ r.result = Some(Err(InputFileNotFound))
                /\ r.spawns = <<>>
                /\ r.child = "none"

C2_Witness ==
    \E c \in Calls :
        /\ call[c].op = "compress_video"
        /\ call[c].input = MissingInput
        /\ call[c].auto_gpu
        /\ call[c].output = Named(<<"m","p","4">>)
        /\ call[c].pc = "done"

\* C3: compress_image with width "0" or "" passes ffmpeg exactly -i, input,
\* -y, output: no -vf and no scale entry, whatever the height.
C3_NoScaleWithoutWidth ==
    \A c \in Calls :
        LET r == call[c]
        IN  (r.op = "compress_image" /\ r.width \in {"0", ""}
             /\ exists(r.input)) =>
                /\ Len(r.spawns) = 1
                /\ r.spawns[1] = <<Lit("-i"), r.input, Lit("-y"), r.output>>
                /\ Places(r.spawns[1], "-vf") = {}
                /\ \A i \in DOMAIN r.spawns[1] :
                       r.spawns[1][i][1] # "scale="

C3_Witness ==
    \E c \in Calls :
        /\ call[c].op = "compress_image"
        /\ call[c].width = "0"
        /\ call[c].height = "480"
        /\ call[c].child = "running"

\* the output paths of the requests, by the encoder pair C4 gives them
ClaimedX264 ==
    { <<"o",".","m","p","4">>, <<"o",".","m","k","v">>, <<"o",".","m","o","v">>,
      <<"o",".","a","v","i">>, <<"o",".","f","l","v">>, <<"o",".","t","s">>,
      <<"o",".","m","4","v">>, <<"o",".","w","m","v">>,
      <<"o",".","M","P","4">>, <<"o",".","M","k","V">>, <<"o",".","T","S">>,
      <<"o",".","t","x","t">>, <<"o",".","g","i","f",".","m","p","4">>,
      <<"o">>, <<"o",".">>, <<".","g","i","f">>,
      <<"d",".","m","p","4","/","o">>,
      <<"d",".","o","g","g","/",".","w","e","b","m">> }
ClaimedVp9 ==
    { <<"o",".","w","e","b","m">>, <<"o",".","W","e","b","M">>,
      <<"o",".","m","p","4",".","w","e","b","m">> }
ClaimedTheora ==
    { <<"o",".","o","g","v">>, <<"o",".","o","g","g">>, <<"o",".","O","G","G">> }
ClaimedGif == { <<"o",".","g","i","f">>, <<"o",".","G","i","F">> }

\* the one child of r is asked to encode with video encoder v and audio a
EncodesWith(r, v, a) ==
    /\ Len(r.spawns) = 1
    /\ Carries(r.spawns[1], "-c:v", v)
    /\ Carries(r.spawns[1], "-c:a", a)

\* C4: with auto_gpu false compress_video picks the encoder pair by the
\* lowercased output extension alone: libx264 and aac for the H.264 group and
\* for an unknown or missing extension, libvpx-vp9 and libopus for webm,
\* libtheora and libvorbis for ogv and ogg; the one child it spawns carries
\* that pair after -c:v and -c:a.
C4_SoftwarePairByExtension ==
    /\ VideoOutputs = ClaimedX264 \cup ClaimedVp9 \cup ClaimedTheora \cup ClaimedGif
    /\ \A c \in Calls :
        LET r == call[c]
        IN  (r.op = "compress_video" /\ ~r.auto_gpu /\ exists(r.input)) =>
                /\ r.output \in ClaimedX264 => EncodesWith(r, "libx264", "aac")
                /\ r.output \in ClaimedVp9 =>
                       EncodesWith(r, "libvpx-vp9", "libopus")
                /\ r.output \in ClaimedTheora =>
                       EncodesWith(r, "libtheora", "libvorbis")

C4_Witness ==
    \E c \in Calls :
        /\ call[c].op = "compress_video"
        /\ ~call[c].auto_gpu
        /\ call[c].output = <<"o",".","W","e","b","M">>
        /\ call[c].child = "running"
        /\ call[c].sel.encoder = "libvpx-vp9"

\* the argument list of the software H.264 encode
SoftwareArgs(input, output) ==
    <<Lit("-i"), input, Lit("-c:v"), Lit("libx264"), Lit("-preset"),
      Lit("medium"), Lit("-c:a"), Lit("aac"), Lit("-y"), output>>

\* C5: when auto_gpu is true and all four probes have answered unavailable
\* (a nonzero exit, a kill or a spawn error), the encode child is asked for
\* with the argument list of the auto_gpu false call: libx264, preset medium,
\* aac, nothing before -i and no quality flags; and no invocation returns
\* from a probe, so a probe's failure is never the call's error.
C5_AllProbesFailFallsBack ==
    \A c \in Calls :
        LET r == call[c]
        IN  /\ (r.op = "compress_video" /\ r.auto_gpu
                /\ r.probed = <<FALSE, FALSE, FALSE, FALSE>>) =>
                   /\ Len(r.spawns) = 5
                   /\ r.spawns[5] = SoftwareArgs(r.input, r.output)
                   /\ r.spawns[5] =
                        VideoStart(r.input, r.output, FALSE, TRUE).spawns[1]
                   /\ r.sel = Defaults
            /\ (r.pc = "done" /\ r.spawns # <<>>) =>
                   ~IsProbe(r.spawns[Len(r.spawns)])

C5_Witness ==
    \E c \in Calls :
        /\ call[c].op = "compress_video"
        /\ call[c].auto_gpu
        /\ call[c].probed = <<FALSE, FALSE, FALSE, FALSE>>
        /\ call[c].child = "running"
        /\ call[c].pc = "recv"

\* the priority list of C6, and the output paths whose extension is in the
\* H.264 group
Priority == <<"h264_nvenc", "h264_videotoolbox", "h264_amf", "h264_qsv">>
ClaimedH264 ==
    { <<"o",".","m","p","4">>, <<"o",".","m","k","v">>, <<"o",".","m","o","v">>,
      <<"o",".","a","v","i">>, <<"o",".","f","l","v">>, <<"o",".","t","s">>,
      <<"o",".","m","4","v">>, <<"o",".","w","m","v">>,
      <<"o",".","M","P","4">>, <<"o",".","M","k","V">>, <<"o",".","T","S">>,
      <<"o",".","g","i","f",".","m","p","4">> }

\* C6: the probes one invocation spawns are its first children and name a
\* prefix of the priority list; there is none unless the call is
\* compress_video with auto_gpu and an H.264-group extension; a probe is
\* spawned only when the one before has answered; only the last answer can be
\* a success, probing goes on until a success or the end of the list, and the
\* encoder selected is the one whose probe succeeded (libx264 when none did).
C6_ProbesSequentialFirstMatch ==
    \A c \in Calls :
        LET r  == call[c]
            pe == ProbeEncoders(r)
            n  == Len(pe)
        IN  /\ n <= Len(Priority)
            /\ pe = SubSeq(Priority, 1, n)
            /\ \A i \in 1..n : IsProbe(r.spawns[i])
            /\ (n > 0) <=> (/\ r.op = "compress_video" /\ r.auto_gpu
                            /\ exists(r.input) /\ r.output \in ClaimedH264)
            /\ Len(r.probed) = IF r.pc = "probe" THEN n - 1 ELSE n
            /\ \A i \in 1..(Len(r.probed) - 1) : ~r.probed[i]
            /\ (r.pc # "probe" /\ n > 0) =>
                  /\ r.probed[n] \/ n = Len(Priority)
                  /\ Len(r.spawns) = n + 1
                  /\ r.sel.encoder = IF r.probed[n] THEN Priority[n]
                                                    ELSE "libx264"
                  /\ Carries(r.spawns[n + 1], "-c:v", r.sel.encoder)

C6_Witness ==
    \E c \in Calls :
        /\ call[c].probed = <<FALSE, FALSE, TRUE>>
        /\ call[c].sel.encoder = "h264_amf"
        /\ call[c].child = "running"

\* C7: in each of the three receive loops, the "ffmpeg-progress" events sent
\* are the Stderr events received, one for one and in their order.
C7_EveryLineForwarded ==
    \A c \in Calls :
        call[c].loop \in {"encode", "gif", "image"} =>
            call[c].emitted = Forwarded(call[c])

\* C8: a compress_video call whose child the kill operation ended has
\* returned a failure, whatever Terminated payload the killed child delivered.
C8_KilledCallFails ==
    \A c \in Calls :
        (call[c].op = "compress_video" /\ call[c].pc = "done"
         /\ call[c].by_kill) => Failed(call[c])

KillReachesAll ==
    (\E c \in Calls : call[c].child = "running" /\ call'[c].child = "killed")
        => \A c \in Calls : call'[c].child # "running"

\* C10: nothing keeps two invocations from having a child running at once;
\* kill_ffmpeg can be invoked in every state of the open window, whether or
\* not a child is running, and returns without a change to any invocation;
\* the kill it spawns reaches every running child, probes included, never one
\* invocation's child and not another's.
C10_KillIsGlobal ==
    /\ [](windowOpen => ENABLED kill_ffmpeg)
    /\ [][KillReachesAll]_vars
    /\ [][killers' > killers => call' = call]_vars

C10_Witness ==
    \E c, d \in Calls :
        /\ call[c].pc = "probe" /\ call[c].child = "killed"
        /\ call[d].pc = "recv"  /\ call[d].child = "killed"

====
